---------------------------- MODULE Spec2Model ----------------------------
(***************************************************************************)
(* Model of drake/common/symbolic_formula.cc: the Formula handle, the      *)
(* FormulaCell family and the canonicalizing constructors.                 *)
(*                                                                         *)
(* A Formula is a handle on an immutable cell.  A cell is a record         *)
(*   [ptr, kind, hash, e1, e2, f1, f2, vars]                               *)
(* where ptr is the address of the cell (what shared_ptr compares), hash   *)
(* is the value FormulaCell's constructor stored, e1/e2 are the owned      *)
(* Expressions of a relational cell, f1/f2 the owned Formulas of And, Or,  *)
(* Not and Forall (f1 only for the last two) and vars the bound variables  *)
(* of Forall.  The caller holds two Formula variables, f1 and f2; every    *)
(* operation of the library is applied to them.                            *)
(***************************************************************************)
EXTENDS Integers, FiniteSets, Sequences, TLC

VARIABLES f1,    \* first Formula held by the caller (Nil: none)
          f2,    \* second Formula held by the caller (Nil: none)
          last   \* the last call: operation, arguments, returned value

vars == <<f1, f2, last>>

\* Number of cells (True and False apart) alive at the same time.
MaxCells == 3

\* Range of size_t in the model: hashes are taken modulo HashMod.
HashMod == 4

---------------------------------------------------------------------------
(* Variable, Variables, Expression, Environment: the external collaborators *)

Vars == {"x", "y"}

NoExpr == [kind |-> "None", name |-> "", v |-> 0]

ExprVar(n) == [kind |-> "Var", name |-> n, v |-> 0]

ExprConst(c) == [kind |-> "Constant", name |-> "", v |-> c]

\* The Expressions the caller builds relations from: x, y and the literal 1.0.
Exprs == {ExprVar("x"), ExprVar("y"), ExprConst(1)}

\* Expression::EqualTo: structural equality of two Expressions.
ExprEqualTo(a, b) == a = b

\* Expression::get_hash.
ExprHash(e) ==
  IF e.kind = "Var" THEN (IF e.name = "x" THEN 1 ELSE 2) % HashMod
  ELSE (e.v + 5) % HashMod

\* Expression::GetVariables.
ExprVars(e) == IF e.kind = "Var" THEN {e.name} ELSE {}

\* Variables::get_hash: a function of the set alone.
VarsHash(s) ==
  ((IF "x" \in s THEN 1 ELSE 0) + (IF "y" \in s THEN 2 ELSE 0) + 3) % HashMod

\* A double: a finite value or NaN.
Num(n) == [nan |-> FALSE, v |-> n]

NaN == [nan |-> TRUE, v |-> 0]

\* What an Environment holds for a variable: nothing, or a double.
Unbound == [bound |-> FALSE, nan |-> FALSE, v |-> 0]

Bound(d) == [bound |-> TRUE, nan |-> d.nan, v |-> d.v]

EnvEntries == {Unbound, Bound(Num(0)), Bound(Num(2)), Bound(NaN)}

Envs == [Vars -> EnvEntries]

\* The comparisons of C++ on double: every ordered comparison with a NaN
\* is false, and != is the negation of ==.
NumEq(a, b) == ~a.nan /\ ~b.nan /\ a.v = b.v

NumNeq(a, b) == ~NumEq(a, b)

NumLt(a, b) == ~a.nan /\ ~b.nan /\ a.v < b.v

NumLeq(a, b) == ~a.nan /\ ~b.nan /\ a.v <= b.v

NumGt(a, b) == ~a.nan /\ ~b.nan /\ a.v > b.v

NumGeq(a, b) == ~a.nan /\ ~b.nan /\ a.v >= b.v

\* Expression::Evaluate: the value, or the failure of a missing binding.
ExprEvaluate(e, env) ==
  IF e.kind = "Var"
    THEN IF env[e.name].bound
           THEN [thrown |-> "none", nan |-> env[e.name].nan, v |-> env[e.name].v]
           ELSE [thrown |-> "missing", nan |-> FALSE, v |-> 0]
    ELSE [thrown |-> "none", nan |-> FALSE, v |-> e.v]

---------------------------------------------------------------------------
(* hashing *)

\* hash_combine(seed, v) of drake/common/hash_combine.h, on the model's size_t.
hash_combine(seed, v) == (seed + v + 1 + seed * 2 + (seed \div 4)) % HashMod

\* static_cast<size_t>(kind_): the position of the kind in FormulaKind.
KindIndex(k) ==
  CASE k = "False" -> 0 [] k = "True" -> 1 [] k = "Eq" -> 2 [] k = "Neq" -> 3
    [] k = "Gt" -> 4 [] k = "Geq" -> 5 [] k = "Lt" -> 6 [] k = "Leq" -> 7
    [] k = "And" -> 8 [] k = "Or" -> 9 [] k = "Not" -> 10 [] k = "Forall" -> 11

\* hash<string>{}(s) for the two strings the constructors hash.
HashString(s) == (IF s = "True" THEN 2 ELSE 3) % HashMod

\* FormulaCell::FormulaCell: hash_ = hash_combine(kind, hash).
CellHash(k, h) == hash_combine(KindIndex(k), h)

---------------------------------------------------------------------------
(* cells *)

Nil == [kind |-> "Nil"]

RelKinds == {"Eq", "Neq", "Lt", "Leq", "Gt", "Geq"}

\* FormulaTrue::FormulaTrue, held by the static of Formula::True().
FormulaTrue ==
  [ptr |-> 1, kind |-> "True", hash |-> CellHash("True", HashString("True")),
   e1 |-> NoExpr, e2 |-> NoExpr, f1 |-> Nil, f2 |-> Nil, vars |-> {}]

\* FormulaFalse::FormulaFalse, held by the static of Formula::False().
FormulaFalse ==
  [ptr |-> 2, kind |-> "False", hash |-> CellHash("False", HashString("False")),
   e1 |-> NoExpr, e2 |-> NoExpr, f1 |-> Nil, f2 |-> Nil, vars |-> {}]

\* A relational cell whose hash is taken from its address, not its payload.
FormulaRelAddrHash(p, k, a, b) ==
  [ptr |-> p, kind |-> k, hash |-> CellHash(k, hash_combine(ExprHash(a), p)),
   e1 |-> a, e2 |-> b, f1 |-> Nil, f2 |-> Nil, vars |-> {}]

\* FormulaEq::FormulaEq and its five siblings: kind k at address p.
FormulaRel(p, k, a, b) ==
  [ptr |-> p, kind |-> k, hash |-> CellHash(k, hash_combine(ExprHash(a), ExprHash(b))),
   e1 |-> a, e2 |-> b, f1 |-> Nil, f2 |-> Nil, vars |-> {}]

\* FormulaAnd::FormulaAnd.
FormulaAnd(p, a, b) ==
  [ptr |-> p, kind |-> "And", hash |-> CellHash("And", hash_combine(a.hash, b.hash)),
   e1 |-> NoExpr, e2 |-> NoExpr, f1 |-> a, f2 |-> b, vars |-> {}]

\* FormulaOr::FormulaOr.
FormulaOr(p, a, b) ==
  [ptr |-> p, kind |-> "Or", hash |-> CellHash("Or", hash_combine(a.hash, b.hash)),
   e1 |-> NoExpr, e2 |-> NoExpr, f1 |-> a, f2 |-> b, vars |-> {}]

\* FormulaNot::FormulaNot.
FormulaNot(p, a) ==
  [ptr |-> p, kind |-> "Not", hash |-> CellHash("Not", a.hash),
   e1 |-> NoExpr, e2 |-> NoExpr, f1 |-> a, f2 |-> Nil, vars |-> {}]

\* FormulaForall::FormulaForall.
FormulaForall(p, vs, a) ==
  [ptr |-> p, kind |-> "Forall",
   hash |-> CellHash("Forall", hash_combine(VarsHash(vs), a.hash)),
   e1 |-> NoExpr, e2 |-> NoExpr, f1 |-> a, f2 |-> Nil, vars |-> vs]

\* Formula::get_kind.
get_kind(f) == f.kind

\* Formula::get_hash.
get_hash(f) == f.hash

\* Every cell reachable from a handle, the cell itself included.
RECURSIVE Cells(_)
Cells(f) ==
  IF f = Nil THEN {}
  ELSE {f} \cup Cells(f.f1) \cup Cells(f.f2)

\* Addresses of the cells reachable from a handle.
Ptrs(f) == {c.ptr : c \in Cells(f)}

\* Addresses in use: the two statics and what the caller's handles reach.
Live == {1, 2} \cup Ptrs(f1) \cup Ptrs(f2)

\* make_shared: the address of a new cell, one that is not in use.
Fresh == CHOOSE p \in 3..(MaxCells + 3) :
           /\ p \notin Live
           /\ \A q \in 3..(MaxCells + 3) : q \notin Live => p <= q

\* Whether one more cell fits the model's bound.
CanAlloc == Cardinality(Live) < MaxCells + 2

---------------------------------------------------------------------------
(* the methods of the cells *)

\* FormulaEq::GetFreeVariables and its five siblings.
FreeRel(f) == ExprVars(f.e1) \cup ExprVars(f.e2)

\* FormulaAnd::GetFreeVariables on the free variables of its operands.
FreeAnd(v1, v2) == v1 \cup v2

\* FormulaOr::GetFreeVariables on the free variables of its operands.
FreeOr(v1, v2) == v1 \cup v2

\* Free variables of a Forall cell that forgets to remove the bound ones.
FreeForallKeepsBound(v, bound) == v

\* FormulaForall::GetFreeVariables on the free variables of its body.
FreeForall(v, bound) == v \ bound

\* Formula::GetFreeVariables: the cell's GetFreeVariables, by kind.
RECURSIVE GetFreeVariables(_)
GetFreeVariables(f) ==
  CASE f.kind \in {"True", "False"} -> {}
    [] f.kind \in RelKinds -> FreeRel(f)
    [] f.kind = "And" -> FreeAnd(GetFreeVariables(f.f1), GetFreeVariables(f.f2))
    [] f.kind = "Or" -> FreeOr(GetFreeVariables(f.f1), GetFreeVariables(f.f2))
    [] f.kind = "Not" -> GetFreeVariables(f.f1)
    [] f.kind = "Forall" -> FreeForall(GetFreeVariables(f.f1), f.vars)

\* EqualTo of a relational cell that compares the first Expression twice.
EqualToRelFirstOnly(f, g) == ExprEqualTo(f.e1, g.e1) /\ ExprEqualTo(f.e1, g.e1)

\* FormulaEq::EqualTo and its five siblings, past their check of the kind.
EqualToRel(f, g) == ExprEqualTo(f.e1, g.e1) /\ ExprEqualTo(f.e2, g.e2)

\* Formula::EqualTo and, at its last line, FormulaXxx::EqualTo by kind.
RECURSIVE EqualTo(_, _)
EqualTo(f, g) ==
  IF f.ptr = g.ptr THEN TRUE
  ELSE IF get_kind(f) # get_kind(g) THEN FALSE
  ELSE IF get_hash(f) # get_hash(g) THEN FALSE
  ELSE CASE f.kind \in {"True", "False"} -> get_kind(f) = get_kind(g)
         [] f.kind \in RelKinds -> EqualToRel(f, g)
         [] f.kind \in {"And", "Or"} ->
              EqualTo(f.f1, g.f1) /\ EqualTo(f.f2, g.f2)
         [] f.kind = "Not" -> EqualTo(f.f1, g.f1)
         [] f.kind = "Forall" -> f.vars = g.vars /\ EqualTo(f.f1, g.f1)

\* The value of an evaluation: a boolean, or the exception that left it.
Returned(b) == [thrown |-> "none", val |-> b]

Thrown(what) == [thrown |-> what, val |-> FALSE]

\* The relation a relational kind applies to its two doubles.
Compare(k, a, b) ==
  CASE k = "Eq" -> NumEq(a, b) [] k = "Neq" -> NumNeq(a, b)
    [] k = "Lt" -> NumLt(a, b) [] k = "Leq" -> NumLeq(a, b)
    [] k = "Gt" -> NumGt(a, b) [] k = "Geq" -> NumGeq(a, b)

\* FormulaEq::Evaluate and its five siblings: both operands are evaluated.
EvaluateRel(f, env) ==
  LET a == ExprEvaluate(f.e1, env)
      b == ExprEvaluate(f.e2, env)
  IN  IF a.thrown # "none" \/ b.thrown # "none" THEN Thrown("missing")
      ELSE Returned(Compare(f.kind, a, b))

\* FormulaAnd::Evaluate on the results of its operands: && evaluates its
\* second operand only when the first is true.
EvaluateAnd(r1, r2) ==
  IF r1.thrown # "none" THEN r1
  ELSE IF ~r1.val THEN Returned(FALSE)
  ELSE r2

\* Evaluate of an Or cell written with && in place of ||.
EvaluateOrAsAnd(r1, r2) ==
  IF r1.thrown # "none" THEN r1
  ELSE IF ~r1.val THEN Returned(FALSE)
  ELSE r2

\* FormulaOr::Evaluate: || evaluates its second operand only when the first
\* is false.
EvaluateOr(r1, r2) ==
  IF r1.thrown # "none" THEN r1
  ELSE IF r1.val THEN Returned(TRUE)
  ELSE r2

\* FormulaNot::Evaluate.
EvaluateNot(r) == IF r.thrown # "none" THEN r ELSE Returned(~r.val)

\* Evaluate of a Forall cell that answers true instead of failing.
EvaluateForallAnswers(f, env) == Returned(TRUE)

\* FormulaForall::Evaluate.
EvaluateForall(f, env) == Thrown("not implemented yet")

\* Formula::Evaluate: the cell's Evaluate, by kind.
RECURSIVE Evaluate(_, _)
Evaluate(f, env) ==
  CASE f.kind = "True" -> Returned(TRUE)
    [] f.kind = "False" -> Returned(FALSE)
    [] f.kind \in RelKinds -> EvaluateRel(f, env)
    [] f.kind = "And" -> EvaluateAnd(Evaluate(f.f1, env), Evaluate(f.f2, env))
    [] f.kind = "Or" -> EvaluateOr(Evaluate(f.f1, env), Evaluate(f.f2, env))
    [] f.kind = "Not" -> EvaluateNot(Evaluate(f.f1, env))
    [] f.kind = "Forall" -> EvaluateForall(f, env)

---------------------------------------------------------------------------
(* the canonicalizing constructors, as functions of their operands *)

\* Formula::True().
True == FormulaTrue

\* Formula::False().
False == FormulaFalse

\* forall(vars, f).
forall(vs, f) == FormulaForall(Fresh, vs, f)

\* operator&& without its last simplification, f1 && tt => f1.
OpAndKeepsTrue(a, b) ==
  IF get_kind(a) = "False" \/ get_kind(b) = "False" THEN False
  ELSE IF get_kind(a) = "True" THEN b
  ELSE FormulaAnd(Fresh, a, b)

\* operator&&(f1, f2).
OpAnd(a, b) ==
  IF get_kind(a) = "False" \/ get_kind(b) = "False" THEN False
  ELSE IF get_kind(a) = "True" THEN b
  ELSE IF get_kind(b) = "True" THEN a
  ELSE FormulaAnd(Fresh, a, b)

\* operator|| returning f1 where ff || f2 must return f2.
OpOrReturnsFirst(a, b) ==
  IF get_kind(a) = "True" \/ get_kind(b) = "True" THEN True
  ELSE IF get_kind(a) = "False" THEN a
  ELSE IF get_kind(b) = "False" THEN a
  ELSE FormulaOr(Fresh, a, b)

\* operator||(f1, f2).
OpOr(a, b) ==
  IF get_kind(a) = "True" \/ get_kind(b) = "True" THEN True
  ELSE IF get_kind(a) = "False" THEN b
  ELSE IF get_kind(b) = "False" THEN a
  ELSE FormulaOr(Fresh, a, b)

\* operator! that collapses a double negation.
OpNotCollapses(a) ==
  IF get_kind(a) = "True" THEN False
  ELSE IF get_kind(a) = "False" THEN True
  ELSE IF get_kind(a) = "Not" THEN a.f1
  ELSE FormulaNot(Fresh, a)

\* operator!(f).
OpNot(a) ==
  IF get_kind(a) = "True" THEN False
  ELSE IF get_kind(a) = "False" THEN True
  ELSE FormulaNot(Fresh, a)

\* operator==(e1, e2).
OpEq(a, b) == IF ExprEqualTo(a, b) THEN True ELSE FormulaRel(Fresh, "Eq", a, b)

\* operator!=(e1, e2).
OpNeq(a, b) == IF ExprEqualTo(a, b) THEN False ELSE FormulaRel(Fresh, "Neq", a, b)

\* operator<(e1, e2).
OpLt(a, b) == IF ExprEqualTo(a, b) THEN False ELSE FormulaRel(Fresh, "Lt", a, b)

\* operator<= with the simplification of operator<.
OpLeqAsLt(a, b) == IF ExprEqualTo(a, b) THEN False ELSE FormulaRel(Fresh, "Leq", a, b)

\* operator<=(e1, e2).
OpLeq(a, b) == IF ExprEqualTo(a, b) THEN True ELSE FormulaRel(Fresh, "Leq", a, b)

\* operator>(e1, e2).
OpGt(a, b) == IF ExprEqualTo(a, b) THEN False ELSE FormulaRel(Fresh, "Gt", a, b)

\* operator>=(e1, e2).
OpGeq(a, b) == IF ExprEqualTo(a, b) THEN True ELSE FormulaRel(Fresh, "Geq", a, b)

---------------------------------------------------------------------------
(* the caller: two Formula variables and the calls made on them *)

NoOut == [thrown |-> "none", val |-> FALSE]

\* The record of a call; fields a call does not use keep these values.
NoCall ==
  [op |-> "none", a1 |-> Nil, a2 |-> Nil, e1 |-> NoExpr, e2 |-> NoExpr,
   vars |-> {}, ret |-> Nil, out |-> NoOut, eq |-> FALSE, free |-> {}, hash |-> 0]

\* The handle the caller got last.
Top == IF f2 # Nil THEN f2 ELSE f1

Init == f1 = Nil /\ f2 = Nil /\ last = NoCall

\* The caller stores a returned handle in its first unused variable.
Store(r) ==
  IF f1 = Nil THEN f1' = r /\ f2' = f2
  ELSE f1' = f1 /\ f2' = r

\* The caller replaces the handle it got last by a returned one.
Replace(r) ==
  IF f2 # Nil THEN f1' = f1 /\ f2' = r
  ELSE f1' = r /\ f2' = f2

GetTrue ==
  /\ f2 = Nil /\ CanAlloc
  /\ Store(True)
  /\ last' = [NoCall EXCEPT !.op = "True", !.ret = True]

GetFalse ==
  /\ f2 = Nil /\ CanAlloc
  /\ Store(False)
  /\ last' = [NoCall EXCEPT !.op = "False", !.ret = False]

\* Copy of a Formula: the copy shares the cell.
Copy ==
  /\ f1 # Nil /\ f2 = Nil
  /\ f2' = f1 /\ f1' = f1
  /\ last' = [NoCall EXCEPT !.op = "copy", !.a1 = f1, !.ret = f1]

\* The operands the caller passes to a relational constructor: every
\* Expression with itself, and every two distinct Expressions once.
Rank(e) == IF e.kind = "Constant" THEN 2 ELSE IF e.name = "y" THEN 1 ELSE 0

RelOperands == {ab \in Exprs \X Exprs : Rank(ab[1]) <= Rank(ab[2])}

\* The sets of variables the caller quantifies over.
VarSets == {{"x"}, {"x", "y"}}

\* A relational constructor called on two Expressions.  Like every call that
\* may allocate, it is made while the bound leaves room for one more cell.
Relational(name, r, a, b) ==
  /\ f2 = Nil
  /\ CanAlloc
  /\ Store(r)
  /\ last' = [NoCall EXCEPT !.op = name, !.e1 = a, !.e2 = b, !.ret = r]

Eq == \E ab \in RelOperands : Relational("Eq", OpEq(ab[1], ab[2]), ab[1], ab[2])

Neq == \E ab \in RelOperands : Relational("Neq", OpNeq(ab[1], ab[2]), ab[1], ab[2])

Lt == \E ab \in RelOperands : Relational("Lt", OpLt(ab[1], ab[2]), ab[1], ab[2])

Leq == \E ab \in RelOperands : Relational("Leq", OpLeq(ab[1], ab[2]), ab[1], ab[2])

Gt == \E ab \in RelOperands : Relational("Gt", OpGt(ab[1], ab[2]), ab[1], ab[2])

Geq == \E ab \in RelOperands : Relational("Geq", OpGeq(ab[1], ab[2]), ab[1], ab[2])

\* f1 && f2 on the caller's two handles; the result replaces them.
And ==
  /\ f1 # Nil /\ f2 # Nil
  /\ LET r == OpAnd(f1, f2)
     IN  /\ CanAlloc
         /\ f1' = r /\ f2' = Nil
         /\ last' = [NoCall EXCEPT !.op = "And", !.a1 = f1, !.a2 = f2, !.ret = r]

\* f1 || f2 on the caller's two handles; the result replaces them.
Or ==
  /\ f1 # Nil /\ f2 # Nil
  /\ LET r == OpOr(f1, f2)
     IN  /\ CanAlloc
         /\ f1' = r /\ f2' = Nil
         /\ last' = [NoCall EXCEPT !.op = "Or", !.a1 = f1, !.a2 = f2, !.ret = r]

\* !f on the handle the caller got last.
Not ==
  /\ Top # Nil
  /\ LET r == OpNot(Top)
     IN  /\ CanAlloc
         /\ Replace(r)
         /\ last' = [NoCall EXCEPT !.op = "Not", !.a1 = Top, !.ret = r]

\* forall(vs, f) on the handle the caller got last.
Forall ==
  /\ Top # Nil
  /\ CanAlloc
  /\ \E vs \in VarSets :
       LET r == forall(vs, Top)
       IN  /\ Replace(r)
           /\ last' = [NoCall EXCEPT !.op = "Forall", !.a1 = Top, !.vars = vs,
                                     !.ret = r]

\* f.Evaluate(env) on the handle the caller got last, under any environment.
DoEvaluate ==
  /\ Top # Nil
  /\ \E out \in {Evaluate(Top, env) : env \in Envs} :
       last' = [NoCall EXCEPT !.op = "Evaluate", !.a1 = Top, !.out = out]
  /\ UNCHANGED <<f1, f2>>

\* f1.EqualTo(f2) on the caller's two handles.
DoEqualTo ==
  /\ f1 # Nil /\ f2 # Nil
  /\ last' = [NoCall EXCEPT !.op = "EqualTo", !.a1 = f1, !.a2 = f2,
                            !.eq = EqualTo(f1, f2)]
  /\ UNCHANGED <<f1, f2>>

\* f.GetFreeVariables() on the handle the caller got last.
DoGetFreeVariables ==
  /\ Top # Nil
  /\ last' = [NoCall EXCEPT !.op = "GetFreeVariables", !.a1 = Top,
                            !.free = GetFreeVariables(Top)]
  /\ UNCHANGED <<f1, f2>>

\* f.get_hash() on the handle the caller got last.
DoGetHash ==
  /\ Top # Nil
  /\ last' = [NoCall EXCEPT !.op = "get_hash", !.a1 = Top, !.hash = get_hash(Top)]
  /\ UNCHANGED <<f1, f2>>

Next ==
  \/ GetTrue \/ GetFalse \/ Copy
  \/ Eq \/ Neq \/ Lt \/ Leq \/ Gt \/ Geq
  \/ And \/ Or \/ Not \/ Forall
  \/ DoEvaluate \/ DoEqualTo \/ DoGetFreeVariables \/ DoGetHash

Spec == Init /\ [][Next]_vars

---------------------------------------------------------------------------
(* what the properties below speak of *)

\* Structural equality: same kind, same payload in the same order, whatever
\* the addresses and the hashes.
RECURSIVE StructEq(_, _)
StructEq(f, g) ==
  IF f = Nil \/ g = Nil THEN f = g
  ELSE /\ f.kind = g.kind
       /\ f.e1 = g.e1 /\ f.e2 = g.e2
       /\ f.vars = g.vars
       /\ StructEq(f.f1, g.f1) /\ StructEq(f.f2, g.f2)

\* The cells the caller can reach, the two statics included.
AllCells == {True, False} \cup Cells(f1) \cup Cells(f2) \cup Cells(last.ret)

\* Addresses that were in use when the last constructor was called: its
\* operands and the handle the caller holds beside the result.
UsedBefore ==
  {1, 2} \cup Ptrs(last.a1) \cup Ptrs(last.a2)
         \cup (IF f2 # Nil THEN Ptrs(f1) ELSE {})

\* r is a cell the last constructor allocated.
NewNode(r) == r.ptr \notin UsedBefore

IsConstant(f) == f.kind \in {"True", "False"}

BindsAll(env, vs) == \A v \in vs : env[v].bound

ForallFree(f) == \A c \in Cells(f) : c.kind # "Forall"

NotImplemented == Thrown("not implemented yet")

\* C1: and/or with a True or False operand, in either position, return the
\* other operand or the constant; with no such operand they return a new
\* And (Or) cell holding f1 then f2.
C1_AndOrIdentity ==
  LET a == last.a1  b == last.a2  r == last.ret
  IN  /\ last.op = "And" =>
           /\ a.kind = "True" => EqualTo(r, b)
           /\ b.kind = "True" => EqualTo(r, a)
           /\ (a.kind = "False" \/ b.kind = "False") => EqualTo(r, False)
           /\ (~IsConstant(a) /\ ~IsConstant(b)) =>
                r.kind = "And" /\ r.f1 = a /\ r.f2 = b /\ NewNode(r)
      /\ last.op = "Or" =>
           /\ a.kind = "False" => EqualTo(r, b)
           /\ b.kind = "False" => EqualTo(r, a)
           /\ (a.kind = "True" \/ b.kind = "True") => EqualTo(r, True)
           /\ (~IsConstant(a) /\ ~IsConstant(b)) =>
                r.kind = "Or" /\ r.f1 = a /\ r.f2 = b /\ NewNode(r)

\* and(True(), f) was called on a relational f and returned f.
C1_Witness ==
  /\ last.op = "And" /\ last.a1.kind = "True" /\ last.a2.kind \in RelKinds
  /\ last.ret = last.a2

\* C2: not(True) is False, not(False) is True, and not(f) of any other f is
\* a new Not cell holding f, also when f is itself a Not cell.
C2_Negation ==
  LET a == last.a1  r == last.ret
  IN  last.op = "Not" =>
        /\ a.kind = "True" => EqualTo(r, False)
        /\ a.kind = "False" => EqualTo(r, True)
        /\ ~IsConstant(a) => r.kind = "Not" /\ r.f1 = a /\ NewNode(r)
        /\ a.kind = "Not" => r.f1.kind = "Not" /\ r.f1.f1 = a.f1

\* not was called on a Not cell and returned a Not of a Not of a relation.
C2_Witness ==
  /\ last.op = "Not" /\ last.a1.kind = "Not"
  /\ last.ret.kind = "Not" /\ last.ret.f1.kind = "Not"
  /\ last.ret.f1.f1.kind \in RelKinds

\* C3: a relational constructor on structurally equal Expressions returns
\* True (eq, leq, geq) or False (neq, lt, gt); on distinct Expressions it
\* returns a new cell of its kind holding e1 then e2.
C3_Relational ==
  LET r == last.ret
  IN  last.op \in RelKinds =>
        /\ (ExprEqualTo(last.e1, last.e2) /\ last.op \in {"Eq", "Leq", "Geq"})
             => EqualTo(r, True)
        /\ (ExprEqualTo(last.e1, last.e2) /\ last.op \in {"Neq", "Lt", "Gt"})
             => EqualTo(r, False)
        /\ ~ExprEqualTo(last.e1, last.e2) =>
             r.kind = last.op /\ r.e1 = last.e1 /\ r.e2 = last.e2 /\ NewNode(r)

\* geq(e, e) was called and returned True.
C3_Witness ==
  /\ last.op = "Geq" /\ ExprEqualTo(last.e1, last.e2)
  /\ last.ret.kind = "True"

\* C4: two formulas that are EqualTo have equal hashes, and so have two
\* structurally equal cells.
C4_HashContract ==
  \A a \in AllCells, b \in AllCells :
    /\ EqualTo(a, b) => get_hash(a) = get_hash(b)
    /\ StructEq(a, b) => get_hash(a) = get_hash(b)

\* EqualTo was called on two cells at different addresses and returned true.
C4_Witness ==
  /\ last.op = "EqualTo" /\ last.a1.ptr # last.a2.ptr /\ last.eq
  /\ get_hash(last.a1) = get_hash(last.a2)

\* C5: EqualTo is structural equality, whatever the addresses and also when
\* the hashes of two distinct formulas of one kind collide.
C5_EqualToStructural ==
  /\ \A a \in AllCells, b \in AllCells : EqualTo(a, b) = StructEq(a, b)
  /\ last.op = "EqualTo" => last.eq = StructEq(last.a1, last.a2)

\* EqualTo was called on two structurally distinct formulas of one kind with
\* one hash, and returned false.
C5_Witness ==
  /\ last.op = "EqualTo" /\ last.a1.kind = last.a2.kind
  /\ get_hash(last.a1) = get_hash(last.a2)
  /\ ~StructEq(last.a1, last.a2) /\ ~last.eq

\* C6: Evaluate fails under every environment that leaves a free variable
\* of the formula unbound.
C6_MissingBindingFails ==
  Top # Nil =>
    \A env \in Envs :
      (\E v \in GetFreeVariables(Top) : ~env[v].bound)
        => Evaluate(Top, env).thrown # "none"

\* C7: forall always returns a new Forall cell, and Evaluate on it fails with
\* the not-implemented error under every environment, the formula unchanged.
C7_Forall ==
  /\ last.op = "Forall" =>
       /\ last.ret.kind = "Forall" /\ last.ret.vars = last.vars
       /\ last.ret.f1 = last.a1 /\ NewNode(last.ret)
       /\ \A env \in Envs : Evaluate(last.ret, env) = NotImplemented
  /\ (last.op = "Evaluate" /\ last.a1.kind = "Forall") =>
       last.out = NotImplemented /\ Top = last.a1

\* Evaluate was called on forall(vars, True()) and failed.
C7_Witness ==
  /\ last.op = "Evaluate" /\ last.a1.kind = "Forall"
  /\ last.a1.f1.kind = "True" /\ last.out = NotImplemented

\* C8 as stated: the free variables of and(f1, f2) and of or(f1, f2) are
\* those of f1 and f2 together, of not(f) those of f, of forall(vs, f) those
\* of f without vs.
C8_FreeVariableAlgebra ==
  LET a == last.a1  b == last.a2  r == last.ret
  IN  /\ last.op \in {"And", "Or"} =>
           GetFreeVariables(r) = GetFreeVariables(a) \cup GetFreeVariables(b)
      /\ last.op = "Not" => GetFreeVariables(r) = GetFreeVariables(a)
      /\ last.op = "Forall" =>
           GetFreeVariables(r) = GetFreeVariables(a) \ last.vars

\* C8 amended: as stated, but and with a False operand and or with a True
\* operand return the constant, which has no free variable.
C8_FreeVariablesAmended ==
  LET a == last.a1  b == last.a2  r == last.ret
  IN  /\ last.op = "And" =>
           GetFreeVariables(r) =
             IF a.kind = "False" \/ b.kind = "False" THEN {}
             ELSE GetFreeVariables(a) \cup GetFreeVariables(b)
      /\ last.op = "Or" =>
           GetFreeVariables(r) =
             IF a.kind = "True" \/ b.kind = "True" THEN {}
             ELSE GetFreeVariables(a) \cup GetFreeVariables(b)
      /\ last.op = "Not" => GetFreeVariables(r) = GetFreeVariables(a)
      /\ last.op = "Forall" =>
           GetFreeVariables(r) = GetFreeVariables(a) \ last.vars
      /\ last.op = "GetFreeVariables" => last.free = GetFreeVariables(last.a1)

\* and(False(), f) was called on an f with free variables and returned a
\* formula with none.
C8_Witness ==
  /\ last.op = "And" /\ last.a1.kind = "False"
  /\ GetFreeVariables(last.a2) # {}
  /\ GetFreeVariables(last.ret) = {}

\* The comparison of the values of the two operands of the last relational
\* constructor under env.
Compared(env) ==
  Returned(Compare(last.op, ExprEvaluate(last.e1, env), ExprEvaluate(last.e2, env)))

\* What C9 says of the connectives, under every environment binding the
\* free variables of the operands.
ConnectivesConsistent ==
  LET a == last.a1  b == last.a2  r == last.ret
  IN  /\ (last.op \in {"And", "Or"} /\ ForallFree(a) /\ ForallFree(b)) =>
           \A env \in Envs :
             BindsAll(env, GetFreeVariables(a) \cup GetFreeVariables(b)) =>
               Evaluate(r, env) =
                 IF last.op = "And"
                   THEN Returned(Evaluate(a, env).val /\ Evaluate(b, env).val)
                   ELSE Returned(Evaluate(a, env).val \/ Evaluate(b, env).val)
      /\ (last.op = "Not" /\ ForallFree(a)) =>
           \A env \in Envs :
             BindsAll(env, GetFreeVariables(a)) =>
               Evaluate(r, env) = Returned(~Evaluate(a, env).val)

C10_CanonicalForm ==
  \A c \in AllCells :
    /\ c.kind \in {"And", "Or"} => ~IsConstant(c.f1) /\ ~IsConstant(c.f2)
    /\ c.kind = "Not" => ~IsConstant(c.f1)
    /\ c.kind \in RelKinds => ~ExprEqualTo(c.e1, c.e2)

\* not was called on a forall whose body is False, after the constants went
\* through the constructors.
C10_Witness ==
  /\ last.op = "Not" /\ last.a1.kind = "Forall" /\ last.a1.f1.kind = "False"
  /\ last.ret.kind = "Not"

=============================================================================
